---- MODULE Spec2Model ----
(***************************************************************************)
(* Managed-identity token acquisition with cache-aside refresh             *)
(* (msal/imds.py): the environment resolver _obtain_token, the three       *)
(* backend adapters, ManagedIdentity.__init__ and                          *)
(* ManagedIdentity.acquire_token.                                          *)
(*                                                                         *)
(* acquire_token is split at its only suspension point, the transport      *)
(* call: AcquireStart is everything up to the moment http_client.get is    *)
(* entered (argument check, cache find, scan, backend resolution, request  *)
(* construction), AcquireFinish is everything after the transport answers  *)
(* (parsing, normalisation, cache add, return).  The clock may advance     *)
(* between the two.                                                        *)
(*                                                                         *)
(* Authority.user_realm_discovery (msal/authority.py) with the class-level *)
(* set _domains_without_user_realm_discovery is modelled next to it, split *)
(* at its transport call in the same way.                                  *)
(***************************************************************************)
EXTENDS Integers, Sequences, FiniteSets, TLC

VARIABLES
    now,     \* time.time(), in whole seconds
    cache,   \* the entries held by the token cache collaborator, in find() order
    mi,      \* the ManagedIdentity object (or the outcome of its construction)
    pc,      \* per thread: "idle" | "http" | "done"
    inv,     \* per thread: locals and observed effects of its acquire_token call
    calls,   \* number of acquire_token invocations started so far
    domains, \* Authority._domains_without_user_realm_discovery
    upc,     \* per thread: "idle" | "http" | "done" in user_realm_discovery
    urd,     \* per thread: locals and observed effects of its user_realm_discovery call
    ucalls   \* number of user_realm_discovery calls started so far

imdsVars == <<now, cache, mi, pc, inv, calls>>
authorityVars == <<domains, upc, urd, ucalls>>
vars == <<now, cache, mi, pc, inv, calls, domains, upc, urd, ucalls>>

(***************************************************************************)
(* Bounds of the model.                                                    *)
(***************************************************************************)
MaxTime == 1          \* the clock runs over 0..MaxTime
MaxInitCache == 2     \* entries the caller-supplied cache holds at the start
MaxCalls == 2         \* acquire_token invocations in one behaviour
MaxDiscoveries == 3   \* user_realm_discovery calls in one behaviour

(***************************************************************************)
(* Values.                                                                 *)
(***************************************************************************)
Absent == "<absent>"  \* None, or a key that a dict does not carry
NoInt == -1           \* the same, for a numeric field
ExpiryMargin == 300   \* 5*60
DefaultExpiresIn == 3599
SYSTEM_ASSIGNED == "SYSTEM_ASSIGNED_MANAGED_IDENTITY"

Threads == {"t1", "t2"}
Main == "t1"

Resources == {"r1"}
EnvVars == {"IDENTITY_ENDPOINT", "IDENTITY_HEADER", "IDENTITY_SERVER_THUMBPRINT"}

(***************************************************************************)
(* Response bodies.  A body is either unparsable (json = FALSE) or a JSON  *)
(* object, given by the keys it carries.  error stands for the "error"     *)
(* member: Absent, "NoCode" (an error object without "code"), or the code. *)
(***************************************************************************)
Garbage ==
    [json |-> FALSE, access_token |-> Absent, expires_in |-> NoInt,
     expires_on |-> NoInt, token_type |-> Absent, error |-> Absent]

ErrorCodes ==
    {"SecretHeaderNotFound", "ManagedIdentityNotFound", "ArgumentNullOrEmpty",
     "SomethingElse"}

\* A body carries at most one of expires_in / expires_on; a body with an error
\* member carries nothing else.
Payloads ==
    {p \in [json : {TRUE}, access_token : {Absent, "T"}, expires_in : {NoInt, 300},
            expires_on : {NoInt, 301}, token_type : {Absent, "Bearer"},
            error : {Absent, "NoCode"} \cup ErrorCodes] :
        /\ p.expires_in = NoInt \/ p.expires_on = NoInt
        /\ p.access_token = Absent => p.token_type = Absent
        /\ p.error # Absent =>
              /\ p.access_token = Absent
              /\ p.expires_in = NoInt /\ p.expires_on = NoInt}

EmptyObject == [Garbage EXCEPT !.json = TRUE]

\* What http_client.get does: it raises, or returns a status code and a body.
TransportFailure == [raised |-> TRUE, status_code |-> NoInt, body |-> Garbage]

Responses ==
    {TransportFailure}
    \cup {[raised |-> FALSE, status_code |-> 200, body |-> b] : b \in Payloads \cup {Garbage}}
    \cup {[raised |-> FALSE, status_code |-> 500, body |-> b] :
            b \in {q \in Payloads : q.error # Absent} \cup {EmptyObject, Garbage}}

\* What an invocation remembers of the response it got.
Summary(resp) ==
    [raised |-> resp.raised, status_code |-> resp.status_code, json |-> resp.body.json,
     error |-> resp.body.error]

NoResponse == [raised |-> FALSE, status_code |-> NoInt, json |-> FALSE, error |-> Absent]

(***************************************************************************)
(* Records returned by the adapters and by acquire_token.                  *)
(***************************************************************************)
NoDescription == [fmt |-> "none", raw |-> Garbage]

NoneRec ==
    [access_token |-> Absent, expires_in |-> NoInt, expires_on |-> NoInt,
     token_type |-> Absent, error |-> Absent, error_description |-> NoDescription]

Returned(v) == [exc |-> "", value |-> v]
Raised(e) == [exc |-> e, value |-> NoneRec]
NoOutcome == [exc |-> "<running>", value |-> NoneRec]

\* "return payload": the parsed body itself is the record
AsIs(payload) ==
    [access_token |-> payload.access_token, expires_in |-> payload.expires_in,
     expires_on |-> payload.expires_on, token_type |-> payload.token_type,
     error |-> payload.error, error_description |-> NoDescription]

Normalized(access_token, expires_in, token_type) ==
    [access_token |-> access_token, expires_in |-> expires_in, expires_on |-> NoInt,
     token_type |-> token_type, error |-> Absent, error_description |-> NoDescription]

ErrorRecord(error, description) ==
    [access_token |-> Absent, expires_in |-> NoInt, expires_on |-> NoInt,
     token_type |-> Absent, error |-> error, error_description |-> description]

\* payload.get("token_type", "Bearer")
TokenTypeOrBearer(token_type) == IF token_type = Absent THEN "Bearer" ELSE token_type

(***************************************************************************)
(* Backend adapters: the part after http_client.get has returned resp.     *)
(***************************************************************************)
ImdsSuccess(payload) == payload.access_token # Absent /\ payload.expires_in # NoInt

\* mutant: the parse failure is swallowed and reported as an error record
_obtain_token_on_azure_vm_swallow(resp) ==
    IF ~resp.body.json
    THEN Returned(ErrorRecord("invalid_request", [fmt |-> "resp.text", raw |-> resp.body]))
    ELSE IF ImdsSuccess(resp.body)
         THEN Returned(Normalized(resp.body.access_token, resp.body.expires_in,
                                  TokenTypeOrBearer(resp.body.token_type)))
         ELSE Returned(AsIs(resp.body))

_obtain_token_on_azure_vm(resp) ==
    IF ~resp.body.json THEN Raised("ValueError")
    ELSE IF ImdsSuccess(resp.body)
         THEN Returned(Normalized(resp.body.access_token, resp.body.expires_in,
                                  TokenTypeOrBearer(resp.body.token_type)))
         ELSE Returned(AsIs(resp.body))

_obtain_token_on_app_service(resp, t) ==
    IF ~resp.body.json THEN Raised("ValueError")
    ELSE IF resp.body.access_token # Absent /\ resp.body.expires_on # NoInt
         THEN Returned(Normalized(resp.body.access_token, resp.body.expires_on - t,
                                  TokenTypeOrBearer(resp.body.token_type)))
         ELSE Returned(ErrorRecord("invalid_scope",
                                   [fmt |-> "statusCode, message", raw |-> Garbage]))

error_mapping(code) ==
    CASE code = "SecretHeaderNotFound" -> "unauthorized_client"
      [] code = "ManagedIdentityNotFound" -> "invalid_client"
      [] code = "ArgumentNullOrEmpty" -> "invalid_scope"
      [] OTHER -> "invalid_request"

_obtain_token_on_service_fabric(resp, t) ==
    IF ~resp.body.json THEN Raised("ValueError")
    ELSE IF resp.body.access_token # Absent /\ resp.body.expires_on # NoInt
         THEN IF resp.body.token_type = Absent
              THEN Raised("KeyError")   \* payload["token_type"]
              ELSE Returned(Normalized(resp.body.access_token, resp.body.expires_on - t,
                                       resp.body.token_type))
         ELSE IF resp.body.error \in {Absent, "NoCode"}
              THEN Raised("KeyError")   \* payload["error"]["code"]
              ELSE Returned(ErrorRecord(error_mapping(resp.body.error),
                                        [fmt |-> "resp.text", raw |-> resp.body]))

(***************************************************************************)
(* Environment resolver.                                                   *)
(***************************************************************************)
\* mutant: the App Service test made before the Service Fabric one
SelectBackendAppFirst(environ) ==
    IF {"IDENTITY_ENDPOINT", "IDENTITY_HEADER"} \subseteq environ
    THEN "app_service"
    ELSE IF EnvVars \subseteq environ THEN "service_fabric" ELSE "azure_vm"

SelectBackend(environ) ==
    IF EnvVars \subseteq environ
    THEN "service_fabric"
    ELSE IF {"IDENTITY_ENDPOINT", "IDENTITY_HEADER"} \subseteq environ
         THEN "app_service"
         ELSE "azure_vm"

\* mutant: the identity selectors are sent to Service Fabric too
RequestParamsEverywhere(backend, resource, client_id, object_id, mi_res_id) ==
    [backend |-> backend, resource |-> resource, client_id |-> client_id,
     object_id |-> object_id, mi_res_id |-> mi_res_id]

\* The query parameters of the GET the selected adapter sends.
RequestParams(backend, resource, client_id, object_id, mi_res_id) ==
    IF backend = "service_fabric"
    THEN [backend |-> backend, resource |-> resource, client_id |-> Absent,
          object_id |-> Absent, mi_res_id |-> Absent]
    ELSE [backend |-> backend, resource |-> resource, client_id |-> client_id,
          object_id |-> object_id, mi_res_id |-> mi_res_id]

NoRequest ==
    [backend |-> Absent, resource |-> Absent, client_id |-> Absent,
     object_id |-> Absent, mi_res_id |-> Absent]

Adapter(backend, resp, t) ==
    CASE backend = "service_fabric" -> _obtain_token_on_service_fabric(resp, t)
      [] backend = "app_service" -> _obtain_token_on_app_service(resp, t)
      [] OTHER -> _obtain_token_on_azure_vm(resp)

\* mutant: a failure of the transport is reported as an error record
_obtain_token_swallow(backend, resp, t) ==
    IF resp.raised THEN Returned(ErrorRecord("invalid_request", NoDescription))
    ELSE Adapter(backend, resp, t)

\* _obtain_token from the moment the transport has answered (or raised)
_obtain_token(backend, resp, t) ==
    IF resp.raised THEN Raised("TransportError") ELSE Adapter(backend, resp, t)

(***************************************************************************)
(* The token cache collaborator: find and add.                             *)
(***************************************************************************)
\* An entry is keyed by its client_id and its target (a set of scopes).
NoEntry ==
    [client_id |-> Absent, target |-> {}, secret |-> Absent,
     expires_on |-> NoInt, refresh_on |-> NoInt, token_type |-> Absent]

\* find(ACCESS_TOKEN, target=[resource], query={client_id, ...}): the entries of
\* that client_id whose target covers the one asked for, in the cache's order
RECURSIVE Find(_, _, _)
Find(entries, target, client_id) ==
    IF entries = <<>> THEN <<>>
    ELSE LET rest == Find(Tail(entries), target, client_id)
             e == Head(entries)
         IN  IF target \subseteq e.target /\ e.client_id = client_id
             THEN <<e>> \o rest ELSE rest

NewEntry(client_id, resource, response, t) ==
    [client_id |-> client_id, target |-> {resource}, secret |-> response.access_token,
     expires_on |-> t + (IF response.expires_in = NoInt THEN DefaultExpiresIn
                         ELSE response.expires_in),
     refresh_on |-> NoInt,
     token_type |-> TokenTypeOrBearer(response.token_type)]

SameKey(a, b) == a.client_id = b.client_id /\ a.target = b.target

\* add stores the entry under its key: an entry of the same key is replaced
\* where it stands ("implicitly replaced by the next successful write"), any
\* other entry is kept, and an entry of a new key comes last
\* mutant: an entry already stored under the key is kept
AddKeepFirst(entries, entry) ==
    IF \E i \in 1..Len(entries) : SameKey(entries[i], entry)
    THEN entries
    ELSE Append(entries, entry)

Add(entries, entry) ==
    IF \E i \in 1..Len(entries) : SameKey(entries[i], entry)
    THEN [i \in 1..Len(entries) |->
             IF SameKey(entries[i], entry) THEN entry ELSE entries[i]]
    ELSE Append(entries, entry)

(***************************************************************************)
(* ManagedIdentity.                                                        *)
(***************************************************************************)
Truthy(x) == x # Absent /\ x # ""

CountSet(client_id, object_id, mi_res_id) ==
    (IF Truthy(client_id) THEN 1 ELSE 0) + (IF Truthy(object_id) THEN 1 ELSE 0)
    + (IF Truthy(mi_res_id) THEN 1 ELSE 0)

\* mutant: only all three together are rejected
TooManyIdentitiesAllThree(client_id, object_id, mi_res_id) ==
    CountSet(client_id, object_id, mi_res_id) > 2

TooManyIdentities(client_id, object_id, mi_res_id) ==
    CountSet(client_id, object_id, mi_res_id) > 1

Unconstructed ==
    [status |-> "none", client_id |-> Absent, object_id |-> Absent,
     mi_res_id |-> Absent, token_cache |-> FALSE]

client_id_in_cache(self) ==
    IF Truthy(self.client_id) THEN self.client_id
    ELSE IF Truthy(self.object_id) THEN self.object_id
    ELSE IF Truthy(self.mi_res_id) THEN self.mi_res_id
    ELSE SYSTEM_ASSIGNED

\* mutant: "resource is None" instead of "not resource"
ResourceMissingNoneOnly(resource) == resource = Absent

ResourceMissing(resource) == ~Truthy(resource)

\* mutant: the margin off by one
ExpiredOffByOne(expires_in) == expires_in < ExpiryMargin - 1

\* mutant: only a token past its expiry is skipped, the 5 minutes are forgotten
ExpiredAtZero(expires_in) == expires_in < 0

Expired(expires_in) == expires_in < ExpiryMargin

\* mutant: <= instead of <
AgingInclusive(entry, t) == entry.refresh_on # NoInt /\ entry.refresh_on <= t

Aging(entry, t) == entry.refresh_on # NoInt /\ entry.refresh_on < t

\* "Mimic a real response"
Mimic(entry, expires_in) ==
    Normalized(entry.secret, expires_in, TokenTypeOrBearer(entry.token_type))

\* mutant: the loop looks past an aging entry for one that is still good as new
ScanPreferFresh(matches, t) ==
    LET usable == {i \in 1..Len(matches) : ~Expired(matches[i].expires_on - t)}
        fresh == {i \in usable : ~Aging(matches[i], t)}
        first(S) == CHOOSE i \in S : \A j \in S : i <= j
    IN  IF fresh # {}
        THEN [returned |-> TRUE,
              token |-> Mimic(matches[first(fresh)], matches[first(fresh)].expires_on - t)]
        ELSE IF usable # {}
             THEN [returned |-> FALSE,
                   token |-> Mimic(matches[first(usable)],
                                   matches[first(usable)].expires_on - t)]
             ELSE [returned |-> FALSE, token |-> NoneRec]

\* The loop over matches: [returned, token], returned = "return access_token_from_cache"
\* was executed, token = access_token_from_cache when the loop is left.
RECURSIVE Scan(_, _)
Scan(matches, t) ==
    IF matches = <<>> THEN [returned |-> FALSE, token |-> NoneRec]
    ELSE LET entry == Head(matches)
             expires_in == entry.expires_on - t
         IN  IF Expired(expires_in) THEN Scan(Tail(matches), t)
             ELSE IF Aging(entry, t)
                  THEN [returned |-> FALSE, token |-> Mimic(entry, expires_in)]
                  ELSE [returned |-> TRUE, token |-> Mimic(entry, expires_in)]

\* mutant: a token is written whether or not a cache was configured
ShouldWriteUnconfigured(self, result) == result.access_token # Absent

\* mutant: whatever came back is written
ShouldWriteAlways(self, result) == self.token_cache

ShouldWrite(self, result) == self.token_cache /\ result.access_token # Absent

\* mutant: the fallback is forgotten
FallbackOrResultOnly(access_token_from_cache, result) == result

\* "access_token_from_cache or result"
FallbackOr(access_token_from_cache, result) ==
    IF access_token_from_cache # NoneRec THEN access_token_from_cache ELSE result

\* mutant: the fallback in hand wins over a fresh token
ReturnValueStale(self, access_token_from_cache, result) ==
    FallbackOr(access_token_from_cache, result)

\* What acquire_token returns once _obtain_token has returned result.
ReturnValue(self, access_token_from_cache, result) ==
    IF ShouldWrite(self, result) THEN result
    ELSE FallbackOr(access_token_from_cache, result)

NoInvocation ==
    [resource |-> Absent, cacheBefore |-> <<>>, readNow |-> NoInt, matches |-> <<>>,
     access_token_from_cache |-> NoneRec, nFind |-> 0, nHttp |-> 0, nAdd |-> 0,
     environ |-> {}, request |-> NoRequest, response |-> NoResponse,
     result |-> NoOutcome, written |-> NoEntry, outcome |-> NoOutcome]

(***************************************************************************)
(* Authority.user_realm_discovery and the class-level set it shares.       *)
(***************************************************************************)
\* Authority objects, already constructed, and the instance (host) of each:
\* two objects of one instance, one of another.
Authorities == {"a1", "a2", "a3"}
Instance(a) == IF a = "a3" THEN "login.b.example" ELSE "login.a.example"

NotFound == 404

\* What http_client.get returns, or what the caller passes as response: a
\* status code, a body that json.loads accepts or not, and the truth value of
\* the object (the "response or ..." of the code tests it).
DiscoveryResponses ==
    [raised : {FALSE}, status_code : {200, NotFound, 500}, json : BOOLEAN, truthy : BOOLEAN]

DiscoveryFailure == [raised |-> TRUE, status_code |-> NoInt, json |-> FALSE, truthy |-> FALSE]

\* response=None
NoneResponse == [raised |-> FALSE, status_code |-> NoInt, json |-> FALSE, truthy |-> FALSE]

\* "if self.instance not in self.__class__._domains_without_user_realm_discovery"
Discovers(instance, set) == instance \notin set

\* "response or self._http_client.get(...)": the response passed is used
UsesPassed(response) == response # NoneResponse /\ response.truthy

\* what the call ends with, given the response: the parsed body, an error of
\* raise_for_status or of json.loads, or the empty dict
Answer(resp) ==
    IF resp.status_code # NotFound
    THEN IF resp.status_code >= 400 THEN "HTTPError"
         ELSE IF resp.json THEN "json" ELSE "ValueError"
    ELSE "empty"

\* mutant: every error status marks the instance
AfterResponseAnyError(set, instance, resp) ==
    IF resp.status_code < 400 THEN set ELSE set \cup {instance}

\* the class-level set after the response was handled
AfterResponse(set, instance, resp) ==
    IF resp.status_code # NotFound THEN set ELSE set \cup {instance}

NoDiscovery ==
    [authority |-> Absent, member |-> FALSE, nHttp |-> 0, status_code |-> NoInt,
     outcome |-> "none"]

AuthorityIdle ==
    /\ domains = {}
    /\ upc = [p \in Threads |-> "idle"]
    /\ urd = [p \in Threads |-> NoDiscovery]
    /\ ucalls = 0

ImdsIdle ==
    /\ now = 0
    /\ cache = <<>>
    /\ mi = Unconstructed
    /\ pc = [p \in Threads |-> "idle"]
    /\ inv = [p \in Threads |-> NoInvocation]
    /\ calls = 0

\* user_realm_discovery up to the transport call
UserRealmStart(p, a, response) ==
    /\ upc[p] = "idle"
    /\ ucalls < MaxDiscoveries
    /\ ucalls' = ucalls + 1
    /\ LET base == [NoDiscovery EXCEPT !.authority = a]
       IN  IF ~Discovers(Instance(a), domains)
           THEN /\ urd' = [urd EXCEPT ![p] = [base EXCEPT !.member = TRUE,
                                                         !.outcome = "empty"]]
                /\ upc' = [upc EXCEPT ![p] = "done"]
                /\ domains' = domains
           ELSE IF UsesPassed(response)
                THEN /\ urd' = [urd EXCEPT ![p] =
                                   [base EXCEPT !.status_code = response.status_code,
                                                !.outcome = Answer(response)]]
                     /\ upc' = [upc EXCEPT ![p] = "done"]
                     /\ domains' = AfterResponse(domains, Instance(a), response)
                ELSE /\ urd' = [urd EXCEPT ![p] = [base EXCEPT !.nHttp = 1]]
                     /\ upc' = [upc EXCEPT ![p] = "http"]
                     /\ domains' = domains
    /\ UNCHANGED imdsVars

\* user_realm_discovery from the transport's answer to its return
UserRealmFinish(p, resp) ==
    /\ upc[p] = "http"
    /\ IF resp.raised
       THEN /\ urd' = [urd EXCEPT ![p].outcome = "TransportError"]
            /\ domains' = domains
       ELSE /\ urd' = [urd EXCEPT ![p].status_code = resp.status_code,
                                  ![p].outcome = Answer(resp)]
            /\ domains' = AfterResponse(domains, Instance(urd[p].authority), resp)
    /\ upc' = [upc EXCEPT ![p] = "done"]
    /\ UNCHANGED <<ucalls, imdsVars>>

\* the caller has the outcome; the thread is free for the next call
UserRealmComplete(p) ==
    /\ upc[p] = "done"
    /\ upc' = [upc EXCEPT ![p] = "idle"]
    /\ urd' = [urd EXCEPT ![p] = NoDiscovery]
    /\ UNCHANGED <<domains, ucalls, imdsVars>>

DoUserRealmStart ==
    \E p \in Threads, a \in Authorities,
       response \in DiscoveryResponses \cup {NoneResponse} : UserRealmStart(p, a, response)

DoUserRealmFinish ==
    \E p \in Threads, resp \in DiscoveryResponses \cup {DiscoveryFailure} :
        UserRealmFinish(p, resp)

DoUserRealmComplete == \E p \in Threads : UserRealmComplete(p)

InitAuthority == ImdsIdle /\ AuthorityIdle

NextAuthority == DoUserRealmStart \/ DoUserRealmFinish \/ DoUserRealmComplete

SpecAuthority == InitAuthority /\ [][NextAuthority]_vars

(***************************************************************************)
(* Initial states.  The cache is supplied by the caller, so it may already *)
(* hold entries, with or without refresh_on.                               *)
(***************************************************************************)
\* Targets of the entries the caller's cache may already hold: the resource
\* alone, or the resource among other scopes.
InitTargets == {{"r1"}, {"r1", "r2"}}

InitEntries ==
    [client_id : {SYSTEM_ASSIGNED}, target : InitTargets, secret : {"c"},
     expires_on : {300, 301}, refresh_on : {NoInt, 0}, token_type : {Absent}]

\* entry i of the initial cache carries the secret "c<i>"
Numbered(entries) ==
    [i \in 1..Len(entries) |->
        [entries[i] EXCEPT !.secret = IF i = 1 THEN "c1" ELSE IF i = 2 THEN "c2" ELSE "c3"]]

\* no two entries of a cache have the same key
KeysDistinct(entries) ==
    \A i, j \in 1..Len(entries) : SameKey(entries[i], entries[j]) => i = j

InitCaches ==
    {Numbered(s) : s \in {q \in UNION {[1..n -> InitEntries] : n \in 0..MaxInitCache} :
                              KeysDistinct(q)}}

Init ==
    /\ now = 0
    /\ cache \in InitCaches
    /\ mi = Unconstructed
    /\ pc = [p \in Threads |-> "idle"]
    /\ inv = [p \in Threads |-> NoInvocation]
    /\ calls = 0
    /\ AuthorityIdle

(***************************************************************************)
(* Actions.                                                                *)
(***************************************************************************)
\* The clock advances between the steps of the program.
Tick ==
    /\ now < MaxTime
    /\ \A p \in Threads : pc[p] # "done"
    /\ now' = now + 1
    /\ UNCHANGED <<cache, mi, pc, inv, calls, authorityVars>>

\* ManagedIdentity.__init__
Construct(client_id, object_id, mi_res_id, token_cache) ==
    /\ mi.status = "none"
    /\ mi' = [status |-> IF TooManyIdentities(client_id, object_id, mi_res_id)
                         THEN "ValueError" ELSE "ok",
              client_id |-> client_id, object_id |-> object_id,
              mi_res_id |-> mi_res_id, token_cache |-> token_cache]
    /\ UNCHANGED <<now, cache, pc, inv, calls, authorityVars>>

\* acquire_token up to the transport call
AcquireStart(p, resource, environ) ==
    /\ mi.status = "ok"
    /\ pc[p] = "idle"
    /\ calls < MaxCalls
    /\ calls' = calls + 1
    /\ LET base == [NoInvocation EXCEPT !.resource = resource, !.cacheBefore = cache]
       IN  IF ResourceMissing(resource)
           THEN /\ inv' = [inv EXCEPT ![p] = [base EXCEPT !.outcome = Raised("ValueError")]]
                /\ pc' = [pc EXCEPT ![p] = "done"]
           ELSE LET matches == IF mi.token_cache
                               THEN Find(cache, {resource}, client_id_in_cache(mi))
                               ELSE <<>>
                    scan == Scan(matches, now)
                    read == IF mi.token_cache
                            THEN [base EXCEPT !.matches = matches, !.readNow = now,
                                              !.nFind = 1,
                                              !.access_token_from_cache = scan.token]
                            ELSE base
                    backend == SelectBackend(environ)
                IN  IF mi.token_cache /\ scan.returned
                    THEN /\ inv' = [inv EXCEPT ![p] =
                                       [read EXCEPT !.outcome = Returned(scan.token)]]
                         /\ pc' = [pc EXCEPT ![p] = "done"]
                    ELSE /\ inv' = [inv EXCEPT ![p] =
                                       [read EXCEPT
                                           !.environ = environ,
                                           !.request = RequestParams(backend, resource,
                                               mi.client_id, mi.object_id, mi.mi_res_id),
                                           !.nHttp = 1]]
                         /\ pc' = [pc EXCEPT ![p] = "http"]
    /\ UNCHANGED <<now, cache, mi, authorityVars>>

\* acquire_token from the transport's answer to its return
AcquireFinish(p, resp) ==
    /\ pc[p] = "http"
    /\ LET cur == inv[p]
           result == _obtain_token(cur.request.backend, resp, now)
           seen == [cur EXCEPT !.response = Summary(resp), !.result = result,
                              !.environ = {}]
       IN  IF result.exc # ""
           THEN /\ inv' = [inv EXCEPT ![p] = [seen EXCEPT !.outcome = result]]
                /\ cache' = cache
           ELSE IF ShouldWrite(mi, result.value)
                THEN LET entry == NewEntry(client_id_in_cache(mi), cur.resource,
                                           result.value, now)
                     IN  /\ cache' = Add(cache, entry)
                         /\ inv' = [inv EXCEPT ![p] =
                                       [seen EXCEPT !.written = entry, !.nAdd = 1,
                                                    !.outcome =
                                       Returned(ReturnValue(mi, cur.access_token_from_cache,
                                                            result.value))]]
                ELSE /\ cache' = cache
                     /\ inv' = [inv EXCEPT ![p] =
                                   [seen EXCEPT !.outcome =
                                       Returned(ReturnValue(mi, cur.access_token_from_cache,
                                                            result.value))]]
    /\ pc' = [pc EXCEPT ![p] = "done"]
    /\ UNCHANGED <<now, mi, calls, authorityVars>>

\* the caller has the outcome; the thread is free for the next invocation
Complete(p) ==
    /\ pc[p] = "done"
    /\ pc' = [pc EXCEPT ![p] = "idle"]
    /\ inv' = [inv EXCEPT ![p] = NoInvocation]
    /\ UNCHANGED <<now, cache, mi, calls, authorityVars>>

DoConstruct ==
    \E c \in {Absent, "cid"}, o \in {Absent, "oid"}, r \in {Absent, "rid"},
       tc \in BOOLEAN : Construct(c, o, r, tc)

DoStart == \E resource \in Resources \cup {"", Absent}, environ \in SUBSET EnvVars :
              AcquireStart(Main, resource, environ)

DoFinish == \E resp \in Responses : AcquireFinish(Main, resp)

DoComplete == Complete(Main)

Next == Tick \/ DoConstruct \/ DoStart \/ DoFinish \/ DoComplete

Spec == Init /\ [][Next]_vars

(***************************************************************************)
(* What the claims speak of, stated from the cache contents an invocation  *)
(* read and from what it did, independently of the scan above.             *)
(***************************************************************************)
Remaining(e, t) == e.expires_on - t
Usable(e, t) == Remaining(e, t) >= 300
HasAged(e, t) == e.refresh_on # NoInt /\ e.refresh_on < t

\* index of the first entry of m with at least 300 seconds left, 0 if none
FirstUsable(m, t) ==
    IF \E i \in 1..Len(m) : Usable(m[i], t)
    THEN CHOOSE i \in 1..Len(m) :
             Usable(m[i], t) /\ \A j \in 1..(i - 1) : ~Usable(m[j], t)
    ELSE 0

\* the token of cache entry e as a caller sees it at time t
TokenOf(e, t) ==
    [access_token |-> e.secret, expires_in |-> Remaining(e, t), expires_on |-> NoInt,
     token_type |-> IF e.token_type = Absent THEN "Bearer" ELSE e.token_type,
     error |-> Absent, error_description |-> NoDescription]

Finished(p) == pc[p] = "done"
ReadCache(p) == inv[p].nFind = 1
\* the refresh came back with a record that carries no access_token
RefreshFailed(p) ==
    inv[p].nHttp = 1 /\ inv[p].result.exc = "" /\ inv[p].result.value.access_token = Absent
\* the refresh came back with a record that carries an access_token
RefreshSucceeded(p) ==
    inv[p].nHttp = 1 /\ inv[p].result.exc = "" /\ inv[p].result.value.access_token # Absent
\* the invocation returned a token taken from the cache
ReturnedFromCache(p) ==
    /\ Finished(p) /\ ReadCache(p) /\ inv[p].outcome.exc = ""
    /\ inv[p].nHttp = 0 \/ (RefreshFailed(p) /\ inv[p].outcome.value # inv[p].result.value)

\* the first usable entry the invocation of p read is aging / is not aging
CandidateAging(p) ==
    LET i == FirstUsable(inv[p].matches, inv[p].readNow)
    IN  ReadCache(p) /\ i > 0 /\ HasAged(inv[p].matches[i], inv[p].readNow)
CandidateGood(p) ==
    LET i == FirstUsable(inv[p].matches, inv[p].readNow)
    IN  ReadCache(p) /\ i > 0 /\ ~HasAged(inv[p].matches[i], inv[p].readNow)
Candidate(p) == inv[p].matches[FirstUsable(inv[p].matches, inv[p].readNow)]

(***************************************************************************)
(* C1                                                                      *)
(***************************************************************************)
\* C1 as stated: whenever the entries found include one with at least 300
\* seconds left and refresh_on < now, exactly one transport call is made, and
\* if the refresh fails the token of such an entry is returned.
C1_AnyAgingEntryIsRefreshed ==
    \A p \in Threads :
        (Finished(p) /\ ReadCache(p)
         /\ \E i \in 1..Len(inv[p].matches) :
                Usable(inv[p].matches[i], inv[p].readNow)
                /\ HasAged(inv[p].matches[i], inv[p].readNow))
        => /\ inv[p].nHttp = 1
           /\ RefreshFailed(p) =>
                \E i \in 1..Len(inv[p].matches) :
                    /\ Usable(inv[p].matches[i], inv[p].readNow)
                    /\ HasAged(inv[p].matches[i], inv[p].readNow)
                    /\ inv[p].outcome = Returned(TokenOf(inv[p].matches[i], inv[p].readNow))

\* C1 (amended), fallback law: when the first matching entry with at least 300
\* seconds left has refresh_on < now, the invocation makes exactly one transport
\* call, and if the refresh comes back without an access_token the token of that
\* entry is returned, not the error record.
C1_FallbackLaw ==
    \A p \in Threads :
        (pc[p] # "idle" /\ CandidateAging(p))
        => /\ inv[p].nHttp = 1
           /\ (Finished(p) /\ RefreshFailed(p))
                => inv[p].outcome = Returned(TokenOf(Candidate(p), inv[p].readNow))

C1_Witness ==
    \E p \in Threads :
        /\ Finished(p) /\ CandidateAging(p) /\ RefreshFailed(p)
        /\ inv[p].result.value.error # Absent
        /\ inv[p].outcome.value.access_token = Candidate(p).secret

(***************************************************************************)
(* C2                                                                      *)
(***************************************************************************)
\* C2 as stated: whenever the entries found include one with at least 300
\* seconds left that is not aging, that entry's token is returned with no
\* transport call and no cache write.
C2_AnyGoodEntryIsReturned ==
    \A p \in Threads :
        (Finished(p) /\ ReadCache(p))
        => \A i \in 1..Len(inv[p].matches) :
               (Usable(inv[p].matches[i], inv[p].readNow)
                /\ ~HasAged(inv[p].matches[i], inv[p].readNow))
               => /\ inv[p].outcome = Returned(TokenOf(inv[p].matches[i], inv[p].readNow))
                  /\ inv[p].nHttp = 0
                  /\ inv[p].nAdd = 0

\* C2 (amended): when the first matching entry with at least 300 seconds left
\* has no refresh_on, or a refresh_on not earlier than now, the invocation
\* returns that entry's token with no transport call and no cache write.
C2_FreshHit ==
    \A p \in Threads :
        (pc[p] # "idle" /\ CandidateGood(p))
        => /\ Finished(p)
           /\ inv[p].outcome = Returned(TokenOf(Candidate(p), inv[p].readNow))
           /\ inv[p].nHttp = 0
           /\ inv[p].nAdd = 0
           /\ inv[p].written = NoEntry

\* a hit on an entry whose refresh_on equals now, with a second entry behind it
C2_Witness ==
    \E p \in Threads :
        /\ Finished(p) /\ CandidateGood(p)
        /\ Len(inv[p].matches) = 2
        /\ Candidate(p).refresh_on = inv[p].readNow
        /\ inv[p].outcome.value.access_token = Candidate(p).secret

(***************************************************************************)
(* C3                                                                      *)
(***************************************************************************)
\* C3 as stated: whenever the entries found include one with less than 300
\* seconds left, a transport call is made, whatever else was found.
C3_AnyExpiredEntryIsRefreshed ==
    \A p \in Threads :
        (Finished(p) /\ ReadCache(p)
         /\ \E i \in 1..Len(inv[p].matches) : ~Usable(inv[p].matches[i], inv[p].readNow))
        => inv[p].nHttp = 1

\* C3 (amended): when the entries found include one with less than 300 seconds
\* left, a transport call is made, whatever that entry's refresh_on, unless the
\* first entry with at least 300 seconds left is not aging (that one is then
\* returned without a transport call).
C3_ExpiredIsRefreshed ==
    \A p \in Threads :
        (pc[p] # "idle" /\ ReadCache(p)
         /\ \E i \in 1..Len(inv[p].matches) : ~Usable(inv[p].matches[i], inv[p].readNow))
        => (inv[p].nHttp = 1 <=> ~CandidateGood(p))

\* every entry found has 299 seconds left, one of them with a refresh_on
C3_Witness ==
    \E p \in Threads :
        /\ pc[p] = "http" /\ ReadCache(p) /\ inv[p].nHttp = 1
        /\ Len(inv[p].matches) = 2
        /\ \A i \in 1..2 : Remaining(inv[p].matches[i], inv[p].readNow) = 299
        /\ \E i \in 1..2 : inv[p].matches[i].refresh_on # NoInt

(***************************************************************************)
(* C4                                                                      *)
(***************************************************************************)
\* C4: a token returned from the cache, directly or as the fallback after a
\* failed refresh, is the token of an entry that had at least 300 seconds left
\* when the cache was read.
C4_NeverReturnedPastMargin ==
    \A p \in Threads :
        ReturnedFromCache(p)
        => /\ inv[p].outcome.value.expires_in >= 300
           /\ \E i \in 1..Len(inv[p].matches) :
                  /\ Usable(inv[p].matches[i], inv[p].readNow)
                  /\ inv[p].outcome.value = TokenOf(inv[p].matches[i], inv[p].readNow)

\* the fallback is returned after an entry with 299 seconds left was skipped
C4_Witness ==
    \E p \in Threads :
        /\ ReturnedFromCache(p) /\ RefreshFailed(p)
        /\ Len(inv[p].matches) = 2
        /\ Remaining(inv[p].matches[1], inv[p].readNow) = 299
        /\ inv[p].outcome.value.access_token = inv[p].matches[2].secret
        /\ inv[p].outcome.value.expires_in = 300

(***************************************************************************)
(* C5                                                                      *)
(***************************************************************************)
\* after holds what before held plus the one entry e: e stands where an entry of
\* its key (client_id, target) stood, or comes last; nothing else has changed,
\* nothing is gone
StoredOnce(before, after, e) ==
    /\ Len(after) \in {Len(before), Len(before) + 1}
    /\ \E i \in 1..Len(after) : after[i] = e
    /\ \A i \in 1..Len(before) :
           IF before[i].client_id = e.client_id /\ before[i].target = e.target
           THEN after[i] = e ELSE after[i] = before[i]
    /\ Len(after) = Len(before) + 1 => after[Len(after)] = e

\* the cache key the identity was constructed for
KeyOf(self) ==
    IF self.client_id # Absent THEN self.client_id
    ELSE IF self.object_id # Absent THEN self.object_id
    ELSE IF self.mi_res_id # Absent THEN self.mi_res_id
    ELSE "SYSTEM_ASSIGNED_MANAGED_IDENTITY"

\* C5: when the refresh yields a record carrying access_token and a cache is
\* configured, the invocation writes exactly one entry, with target = resource,
\* under the identity's cache key and holding the new token, and it returns the
\* new record, also when a fallback from the cache was in hand.
C5_SuccessIsWrittenAndReturned ==
    \A p \in Threads :
        (Finished(p) /\ RefreshSucceeded(p) /\ mi.token_cache)
        => /\ inv[p].nAdd = 1
           /\ inv[p].written.target = {inv[p].resource}
           /\ inv[p].written.client_id = KeyOf(mi)
           /\ inv[p].written.secret = inv[p].result.value.access_token
           /\ StoredOnce(inv[p].cacheBefore, cache, inv[p].written)
           /\ inv[p].outcome = inv[p].result

\* a successful refresh while a fallback from the cache was in hand
C5_Witness ==
    \E p \in Threads :
        /\ Finished(p) /\ RefreshSucceeded(p) /\ mi.token_cache
        /\ CandidateAging(p)
        /\ inv[p].outcome.value.access_token = "T"
        /\ Len(cache) = Len(inv[p].cacheBefore) + 1

(***************************************************************************)
(* C6                                                                      *)
(***************************************************************************)
\* C6, per invocation: at most one transport call and one cache write, and a
\* write only after a refresh of the same invocation that carried access_token.
C6_PerInvocation ==
    \A p \in Threads :
        /\ inv[p].nHttp \in {0, 1}
        /\ inv[p].nAdd \in {0, 1}
        /\ inv[p].nAdd = 1 => RefreshSucceeded(p)
        /\ inv[p].nAdd = 0 => inv[p].written = NoEntry

\* C6, per step: no step removes an entry of the cache, and a step that changes
\* the cache stores the one entry written by an invocation whose refresh
\* succeeded in that step.
C6_CacheStep ==
    cache' # cache
    => \E p \in Threads :
           /\ pc[p] = "http" /\ pc'[p] = "done"
           /\ inv[p].nAdd = 0 /\ inv'[p].nAdd = 1
           /\ inv'[p].nHttp = 1
           /\ inv'[p].result.exc = "" /\ inv'[p].result.value.access_token # Absent
           /\ StoredOnce(cache, cache', inv'[p].written)

\* C6: over any sequence of invocations, each performs at most one HTTP call,
\* at most one cache write and no delete, and the cache grows only by a write
\* that follows a successful backend response of the same invocation.
C6_SideEffects == [](C6_PerInvocation) /\ [][C6_CacheStep]_vars

\* a second invocation has written over the entry of its key, the caller's
\* other entry is still there
C6_Witness ==
    \E p \in Threads :
        /\ Finished(p) /\ inv[p].nAdd = 1 /\ calls = 2
        /\ Len(cache) = 2 /\ Len(inv[p].cacheBefore) = 2
        /\ cache # inv[p].cacheBefore
        /\ \E i \in 1..2 : cache[i].secret \in {"c1", "c2"}

(***************************************************************************)
(* C7                                                                      *)
(***************************************************************************)
NumberSet(self) ==
    Cardinality({f \in {"client_id", "object_id", "mi_res_id"} : self[f] # Absent})

\* C7, outcome: construction fails with ValueError exactly when more than one
\* of client_id, object_id, mi_res_id is given, and when it has failed no
\* invocation has run: no transport call, no cache read, no cache write.
C7_Outcome ==
    mi.status # "none"
    => /\ mi.status = "ValueError" <=> NumberSet(mi) > 1
       /\ mi.status = "ok" <=> NumberSet(mi) <= 1
       /\ mi.status = "ValueError"
            => /\ calls = 0
               /\ \A p \in Threads : pc[p] = "idle" /\ inv[p] = NoInvocation

\* C7, step: the constructor touches neither the cache nor the transport
C7_ConstructStep == mi' # mi => (cache' = cache /\ inv' = inv /\ pc' = pc)

\* C7: constructing a ManagedIdentity with more than one of client_id,
\* object_id, mi_res_id fails with an invalid-argument error before any
\* transport call or cache access; with zero or one it succeeds.
C7_ConstructorRejectsTwo == [](C7_Outcome) /\ [][C7_ConstructStep]_vars

C7_Witness ==
    /\ mi.status = "ValueError"
    /\ mi.client_id = Absent /\ mi.object_id # Absent /\ mi.mi_res_id # Absent
    /\ mi.token_cache

(***************************************************************************)
(* C8                                                                      *)
(***************************************************************************)
\* C8: acquire_token with an empty or absent resource raises ValueError with no
\* cache read, no cache write and no transport call; the cache is unchanged.
C8_ResourceRequired ==
    \A p \in Threads :
        (pc[p] # "idle" /\ inv[p].resource \in {"", Absent})
        => /\ Finished(p)
           /\ inv[p].outcome = Raised("ValueError")
           /\ inv[p].nFind = 0 /\ inv[p].nAdd = 0 /\ inv[p].nHttp = 0
           /\ inv[p].request = NoRequest
           /\ cache = inv[p].cacheBefore

\* the empty string, on an identity with a non-empty cache
C8_Witness ==
    \E p \in Threads :
        /\ Finished(p) /\ inv[p].resource = "" /\ mi.token_cache /\ cache # <<>>
        /\ inv[p].outcome.exc = "ValueError"

(***************************************************************************)
(* C9                                                                      *)
(***************************************************************************)
\* C9: the backend the request goes to is Service Fabric iff all three
\* variables are present, otherwise App Service iff endpoint and header are
\* present, otherwise IMDS; and one transport call has been entered, no more.
C9_BackendSelection ==
    \A p \in Threads :
        pc[p] = "http"
        => LET e == inv[p].environ
               endpoint == "IDENTITY_ENDPOINT" \in e
               header == "IDENTITY_HEADER" \in e
               thumbprint == "IDENTITY_SERVER_THUMBPRINT" \in e
               b == inv[p].request.backend
           IN  /\ b \in {"service_fabric", "app_service", "azure_vm"}
               /\ b = "service_fabric" <=> (endpoint /\ header /\ thumbprint)
               /\ b = "app_service" <=> (endpoint /\ header /\ ~thumbprint)
               /\ b = "azure_vm" <=> ~(endpoint /\ header)
               /\ inv[p].nHttp = 1

\* all three variables present
C9_Witness ==
    \E p \in Threads :
        /\ pc[p] = "http" /\ inv[p].environ = EnvVars
        /\ inv[p].request.backend = "service_fabric"

(***************************************************************************)
(* C10                                                                     *)
(***************************************************************************)
SuccessShape(r) ==
    r.access_token # Absent /\ r.token_type # Absent /\ r.expires_in # NoInt
    /\ r.error = Absent
ErrorShape(r) == r.error # Absent /\ r.access_token = Absent

\* C10: whatever the backend, a record returned by the adapter is a success
\* record (access_token, token_type, expires_in) or an error record, and it
\* carries an access_token only if it is a complete success record.
C10_CanonicalShapes ==
    \A p \in Threads :
        (Finished(p) /\ inv[p].nHttp = 1 /\ inv[p].result.exc = "")
        => /\ SuccessShape(inv[p].result.value) \/ ErrorShape(inv[p].result.value)
           /\ inv[p].result.value.access_token # Absent
                => SuccessShape(inv[p].result.value)

(***************************************************************************)
(* C11                                                                     *)
(***************************************************************************)
\* the response of p was parsed by the Service Fabric adapter
ServiceFabricParsed(p) ==
    /\ Finished(p) /\ inv[p].nHttp = 1
    /\ inv[p].request.backend = "service_fabric"
    /\ ~inv[p].response.raised /\ inv[p].response.json

\* C11: for every well-formed Service Fabric response that is not a success the
\* adapter returns an error record: unauthorized_client for
\* SecretHeaderNotFound, invalid_client for ManagedIdentityNotFound,
\* invalid_scope for ArgumentNullOrEmpty, invalid_request for anything else,
\* an unknown or a missing error code included, with the raw body as
\* error_description.
C11_ServiceFabricErrors ==
    \A p \in Threads :
        (ServiceFabricParsed(p) /\ ~RefreshSucceeded(p))
        => LET code == inv[p].response.error
               r == inv[p].result
           IN  /\ r.exc = ""
               /\ r.value.access_token = Absent
               /\ code = "SecretHeaderNotFound" => r.value.error = "unauthorized_client"
               /\ code = "ManagedIdentityNotFound" => r.value.error = "invalid_client"
               /\ code = "ArgumentNullOrEmpty" => r.value.error = "invalid_scope"
               /\ code \notin {"SecretHeaderNotFound", "ManagedIdentityNotFound",
                               "ArgumentNullOrEmpty"}
                    => r.value.error = "invalid_request"
               /\ r.value.error_description.fmt = "resp.text"
               /\ r.value.error_description.raw.json
               /\ r.value.error_description.raw.error = code

(***************************************************************************)
(* C12                                                                     *)
(***************************************************************************)
\* the transport answered p with a status other than 200
Non2xx(p) ==
    /\ Finished(p) /\ inv[p].nHttp = 1
    /\ ~inv[p].response.raised /\ inv[p].response.status_code # 200

\* C12 as stated: a non-2xx response that is not a well-formed backend error
\* body (unparsable, or without an error member) ends the invocation with an
\* error raised to the caller, and yields no success record and no cache write.
C12_Non2xxRaises ==
    \A p \in Threads :
        (Non2xx(p) /\ (~inv[p].response.json \/ inv[p].response.error = Absent))
        => /\ inv[p].outcome.exc \in {"TransportError", "ValueError"}
           /\ ~RefreshSucceeded(p)
           /\ inv[p].nAdd = 0

\* C12 (amended): a non-2xx response whose body cannot be parsed is not retried
\* and ends the invocation with the parse error (ValueError) raised to the
\* caller, a fallback in hand or not; it yields no success record and no cache
\* write.
C12_UnparsableNon2xxRaises ==
    \A p \in Threads :
        (Non2xx(p) /\ ~inv[p].response.json)
        => /\ inv[p].outcome = Raised("ValueError")
           /\ inv[p].nHttp = 1
           /\ ~RefreshSucceeded(p)
           /\ inv[p].nAdd = 0 /\ inv[p].written = NoEntry
           /\ cache = inv[p].cacheBefore

\* an unparsable 500 from IMDS while a fallback from the cache was in hand
C12_Witness ==
    \E p \in Threads :
        /\ Non2xx(p) /\ ~inv[p].response.json
        /\ inv[p].response.status_code = 500
        /\ inv[p].request.backend = "azure_vm"
        /\ CandidateAging(p)
        /\ inv[p].outcome.exc = "ValueError"

(***************************************************************************)
(* C13                                                                     *)
(***************************************************************************)
\* C13: an invocation whose transport call returned ends with a canonical
\* success record, a canonical error record, or a raised invalid-argument,
\* transport or parse failure (no other failure kind escapes), after at most
\* one transport call.
C13_OutcomeKinds ==
    \A p \in Threads :
        (Finished(p) /\ ~inv[p].response.raised)
        => /\ inv[p].nHttp <= 1
           /\ inv[p].outcome.exc \in {"", "ValueError", "TransportError"}
           /\ inv[p].outcome.exc = ""
                => \/ SuccessShape(inv[p].outcome.value)
                   \/ ErrorShape(inv[p].outcome.value)

(***************************************************************************)
(* C14.  Two callers share one ManagedIdentity and its cache: each find    *)
(* and each add is atomic, the steps of the two invocations interleave.    *)
(***************************************************************************)
\* the caches the shared identity starts with
ConcCaches == {c \in InitCaches : Len(c) <= 1}

\* what the transport answers: two different tokens, an error, or a failure
ConcResponses ==
    {TransportFailure}
    \cup {[raised |-> FALSE, status_code |-> 200,
           body |-> [json |-> TRUE, access_token |-> tok, expires_in |-> 300,
                     expires_on |-> NoInt, token_type |-> "Bearer", error |-> Absent]] :
             tok \in {"T", "U"}}
    \cup {[raised |-> FALSE, status_code |-> 200,
           body |-> [EmptyObject EXCEPT !.error = "SomethingElse"]]}

InitConc ==
    /\ now = 0
    /\ cache \in ConcCaches
    /\ mi = [status |-> "ok", client_id |-> Absent, object_id |-> Absent,
             mi_res_id |-> Absent, token_cache |-> TRUE]
    /\ pc = [p \in Threads |-> "idle"]
    /\ inv = [p \in Threads |-> NoInvocation]
    /\ calls = 0
    /\ AuthorityIdle

ConcStart == \E p \in Threads, resource \in Resources : AcquireStart(p, resource, {})

ConcFinish == \E p \in Threads, resp \in ConcResponses : AcquireFinish(p, resp)

ConcComplete == \E p \in Threads : Complete(p)

NextConc == Tick \/ ConcStart \/ ConcFinish \/ ConcComplete

SpecConc == InitConc /\ [][NextConc]_vars

\* a step is the transport call of p / the cache write of p
CallsTransport(p) == inv[p].nHttp = 0 /\ inv'[p].nHttp = 1
WritesCache(p) == inv[p].nAdd = 0 /\ inv'[p].nAdd = 1

\* every transport call is the one call of an invocation that had made none,
\* every change of the cache is the one write of an invocation in flight, and
\* after it the entry of the key is the entry just written
C14_Step ==
    /\ \A p \in Threads :
          inv'[p].nHttp # inv[p].nHttp
          => \/ CallsTransport(p) /\ pc[p] = "idle" /\ pc'[p] = "http"
             \/ pc[p] = "done" /\ pc'[p] = "idle" /\ inv'[p].nHttp = 0
    /\ \A p \in Threads :
          inv'[p].nAdd # inv[p].nAdd
          => \/ WritesCache(p) /\ pc[p] = "http" /\ pc'[p] = "done"
             \/ pc[p] = "done" /\ pc'[p] = "idle" /\ inv'[p].nAdd = 0
    /\ cache' # cache
          => \E p \in Threads :
                /\ WritesCache(p)
                /\ \A q \in Threads \ {p} : inv'[q] = inv[q]
                /\ inv'[p].written.secret # Absent
                /\ StoredOnce(cache, cache', inv'[p].written)
    /\ \A p \in Threads :
          WritesCache(p)
          => \A i \in 1..Len(cache') :
                SameKey(cache'[i], inv'[p].written) => cache'[i] = inv'[p].written

\* C14: in every interleaving an invocation makes at most one transport call
\* and at most one cache write, and after each write the entry retained under
\* the key is the one written last; two invocations that both read the cache
\* before either wrote both call the transport and both write.
C14_Interleavings ==
    /\ [](\A p \in Threads : inv[p].nHttp <= 1 /\ inv[p].nAdd <= 1)
    /\ [][C14_Step]_vars

\* both invocations read the same aging entry, both called the transport, both
\* wrote, with different tokens; one entry is left under the key
C14_Witness ==
    /\ \A p \in Threads :
          /\ Finished(p) /\ inv[p].nHttp = 1 /\ inv[p].nAdd = 1
          /\ CandidateAging(p)
    /\ inv["t1"].cacheBefore = inv["t2"].cacheBefore
    /\ Len(inv["t1"].cacheBefore) = 1
    /\ inv["t1"].written.secret # inv["t2"].written.secret
    /\ SameKey(inv["t1"].written, inv["t2"].written)
    /\ Len(cache) = 1
    /\ cache[1] \in {inv["t1"].written, inv["t2"].written}

\* as C14_Witness, from a miss
C14_WitnessMiss ==
    /\ \A p \in Threads :
          /\ Finished(p) /\ inv[p].nHttp = 1 /\ inv[p].nAdd = 1
          /\ inv[p].matches = <<>>
    /\ inv["t1"].cacheBefore = <<>> /\ inv["t2"].cacheBefore = <<>>
    /\ inv["t1"].written.secret # inv["t2"].written.secret
    /\ Len(cache) = 1

(***************************************************************************)
(* C15                                                                     *)
(***************************************************************************)
\* what the cache holds after the invocation of p: nothing was deleted, at most
\* the entry of the key written was replaced
NothingDeleted(p) ==
    IF inv[p].nAdd = 0 THEN cache = inv[p].cacheBefore
    ELSE StoredOnce(inv[p].cacheBefore, cache, inv[p].written)

\* C15: the scan is decided by the first entry found that has at least 300
\* seconds left: the entries before it are skipped and stay in the cache; if it
\* is not aging it is returned without a transport call; if it is aging it is
\* the fallback and one refresh is attempted; the entries after it play no part.
C15_FirstUsableDecides ==
    \A p \in Threads :
        (Finished(p) /\ ReadCache(p))
        => LET m == inv[p].matches
               t == inv[p].readNow
               i == FirstUsable(m, t)
           IN  /\ \A j \in 1..Len(m) : (i = 0 \/ j < i) => Remaining(m[j], t) < 300
               /\ NothingDeleted(p)
               /\ i = 0 => inv[p].access_token_from_cache = NoneRec /\ inv[p].nHttp = 1
               /\ (i > 0 /\ ~HasAged(m[i], t))
                     => /\ inv[p].nHttp = 0 /\ inv[p].nAdd = 0
                        /\ inv[p].outcome = Returned(TokenOf(m[i], t))
               /\ (i > 0 /\ HasAged(m[i], t))
                     => /\ inv[p].nHttp = 1
                        /\ inv[p].access_token_from_cache = TokenOf(m[i], t)
                        /\ RefreshFailed(p) => inv[p].outcome = Returned(TokenOf(m[i], t))

\* the first entry found is aging, the second is fresh and not aging: the
\* refresh was attempted and, as it failed, the first entry's token came back
C15_Witness ==
    \E p \in Threads :
        /\ Finished(p) /\ ReadCache(p) /\ Len(inv[p].matches) = 2
        /\ Usable(inv[p].matches[1], inv[p].readNow)
        /\ HasAged(inv[p].matches[1], inv[p].readNow)
        /\ Usable(inv[p].matches[2], inv[p].readNow)
        /\ ~HasAged(inv[p].matches[2], inv[p].readNow)
        /\ RefreshFailed(p)
        /\ inv[p].outcome.value.access_token = inv[p].matches[1].secret

\* the first entry found has less than 300 seconds left and is still in the
\* cache after the second one was returned
C15_WitnessSkipped ==
    \E p \in Threads :
        /\ Finished(p) /\ ReadCache(p) /\ Len(inv[p].matches) = 2
        /\ ~Usable(inv[p].matches[1], inv[p].readNow)
        /\ inv[p].nHttp = 0
        /\ inv[p].outcome.value.access_token = inv[p].matches[2].secret
        /\ \E k \in 1..Len(cache) : cache[k] = inv[p].matches[1]

(***************************************************************************)
(* C16                                                                     *)
(***************************************************************************)
\* p called acquire_token with a resource on an identity without a cache
Uncached(p) ==
    pc[p] # "idle" /\ ~mi.token_cache /\ ~ResourceMissing(inv[p].resource)

\* C16: without a cache configured, an invocation with a non-empty resource
\* makes exactly one transport call, neither reads nor writes the cache, has no
\* fallback, and ends with what the adapter gave, success or error, unchanged.
C16_NoCacheConfigured ==
    \A p \in Threads :
        Uncached(p)
        => /\ inv[p].nHttp = 1
           /\ inv[p].nFind = 0 /\ inv[p].matches = <<>>
           /\ inv[p].access_token_from_cache = NoneRec
           /\ inv[p].nAdd = 0 /\ inv[p].written = NoEntry
           /\ cache = inv[p].cacheBefore
           /\ Finished(p) => inv[p].outcome = inv[p].result

\* an error record came back unchanged although the caller's cache object held
\* an entry that a read would have returned
C16_Witness ==
    \E p \in Threads :
        /\ Uncached(p) /\ Finished(p)
        /\ Len(cache) > 0 /\ Usable(cache[1], now) /\ ~HasAged(cache[1], now)
        /\ inv[p].result.exc = "" /\ ErrorShape(inv[p].result.value)
        /\ inv[p].outcome = inv[p].result

\* as C16_Witness, with a token that came back and was not written
C16_WitnessSuccess ==
    \E p \in Threads :
        /\ Uncached(p) /\ Finished(p)
        /\ RefreshSucceeded(p)
        /\ inv[p].outcome = inv[p].result
        /\ cache = <<>>

(***************************************************************************)
(* C17                                                                     *)
(***************************************************************************)
\* the refresh of p ended in a failure of the transport or of the parsing
TransportOrParseFailure(p) ==
    /\ Finished(p) /\ inv[p].nHttp = 1
    /\ inv[p].response.raised \/ ~inv[p].response.json

\* C17: when the transport call raises or the body cannot be parsed, that
\* failure reaches the caller of acquire_token as it is, a fallback from the
\* cache in hand or not, and the cache is as it was before the invocation.
C17_FailurePropagates ==
    \A p \in Threads :
        TransportOrParseFailure(p)
        => /\ inv[p].outcome =
                 IF inv[p].response.raised THEN Raised("TransportError")
                 ELSE Raised("ValueError")
           /\ inv[p].outcome = inv[p].result
           /\ inv[p].nAdd = 0 /\ inv[p].written = NoEntry
           /\ cache = inv[p].cacheBefore

\* the transport raised while the token of an aging entry was in hand
C17_Witness ==
    \E p \in Threads :
        /\ TransportOrParseFailure(p) /\ inv[p].response.raised
        /\ CandidateAging(p)
        /\ inv[p].access_token_from_cache # NoneRec
        /\ inv[p].outcome = Raised("TransportError")
        /\ Len(cache) > 0

(***************************************************************************)
(* C18                                                                     *)
(***************************************************************************)
\* the identity selectors a request carries
Selectors(request) ==
    {k \in {"client_id", "object_id", "mi_res_id"} : request[k] # Absent}

\* p has sent its request
Sent(p) == pc[p] # "idle" /\ inv[p].nHttp = 1

\* C18: a request carries the resource and at most one identity selector, the
\* one the ManagedIdentity was constructed with; IMDS and App Service get the
\* configured selector, Service Fabric never gets one, whatever was configured,
\* and the request is sent all the same.
C18_RequestParameters ==
    \A p \in Threads :
        Sent(p)
        => LET r == inv[p].request
           IN  /\ r.resource = inv[p].resource
               /\ Cardinality(Selectors(r)) <= 1
               /\ \A k \in Selectors(r) : r[k] = mi[k]
               /\ r.backend \in {"azure_vm", "app_service"}
                     => \A k \in {"client_id", "object_id", "mi_res_id"} : r[k] = mi[k]
               /\ r.backend = "service_fabric" => Selectors(r) = {}

\* an identity constructed with a client_id got a token from Service Fabric by
\* a request without selector
C18_Witness ==
    \E p \in Threads :
        /\ Sent(p) /\ Finished(p)
        /\ inv[p].request.backend = "service_fabric"
        /\ mi.client_id # Absent
        /\ Selectors(inv[p].request) = {}
        /\ RefreshSucceeded(p)

\* App Service was sent the object_id the identity was constructed with
C18_WitnessForwarded ==
    \E p \in Threads :
        /\ Sent(p)
        /\ inv[p].request.backend = "app_service"
        /\ mi.object_id # Absent
        /\ Selectors(inv[p].request) = {"object_id"}
        /\ inv[p].request.object_id = mi.object_id

(***************************************************************************)
(* C19                                                                     *)
(***************************************************************************)
\* the step ends the call of p
Ends(p) == upc[p] # "done" /\ upc'[p] = "done"

C19_Step ==
    /\ domains \subseteq domains'
    /\ \A p \in Threads :
          (upc[p] = "idle" /\ upc'[p] # "idle" /\ Instance(urd'[p].authority) \in domains)
          => /\ upc'[p] = "done"
             /\ urd'[p].nHttp = 0 /\ urd'[p].status_code = NoInt
             /\ urd'[p].outcome = "empty"
    /\ \A p \in Threads :
          (Ends(p) /\ urd'[p].status_code = NotFound)
          => Instance(urd'[p].authority) \in domains'
    /\ domains' # domains
          => \E p \in Threads :
                /\ Ends(p) /\ urd'[p].status_code = NotFound
                /\ domains' = domains \cup {Instance(urd'[p].authority)}

\* C19: the set _domains_without_user_realm_discovery only grows; an instance
\* is in it from the moment a call received a 404 for it, every call started on
\* an Authority of an instance in the set returns the empty result without a
\* transport call, and no other response than a 404 adds an instance.
C19_DomainsOnlyGrow ==
    /\ [](\A p \in Threads :
             urd[p].member => urd[p].nHttp = 0 /\ urd[p].outcome = "empty")
    /\ [][C19_Step]_vars

\* one call got a 404 from the transport; a call on another Authority object of
\* the same instance then returned the empty result without a transport call
C19_Witness ==
    \E p, q \in Threads :
        /\ upc[p] = "done" /\ urd[p].nHttp = 1 /\ urd[p].status_code = NotFound
        /\ upc[q] = "done" /\ urd[q].authority # urd[p].authority
        /\ Instance(urd[q].authority) = Instance(urd[p].authority)
        /\ urd[q].member /\ urd[q].nHttp = 0 /\ urd[q].outcome = "empty"
        /\ domains = {Instance(urd[p].authority)}

====
